---- MODULE Spec2Model ----
(***************************************************************************)
(* The session store of uploader_service.py: the module-level dict         *)
(* _sessions guarded by _lock, the three accessors session_set,            *)
(* session_get and touch_session, and the _janitor thread that evicts      *)
(* idle sessions.  Every "with _lock" block is modelled statement by       *)
(* statement, the clock (time.time()) may advance between any two steps.   *)
(* The handlers of /uploader, /upload and /poll, which reach the store     *)
(* through the accessors, are modelled on top of them.                     *)
(***************************************************************************)
EXTENDS Integers, FiniteSets, Sequences, TLC

VARIABLES
    sessions,   \* _sessions: session id -> dict (key -> value), line 65
    lock,       \* _lock: its holder, or Free, line 66
    now,        \* the reading time.time() would return
    ticks,      \* how many times the clock has advanced
    pc,         \* per request thread: the line it is about to execute
    arg,        \* per request thread: the arguments of the call in progress
    last,       \* log: the most recent call or sweep that left its critical section
    wrote,      \* log: the most recent session_set that returned, and when
    acc,        \* log: per session id, "write" once touched or set, "read" if only
                \* read, "none" if not accessed, since its last eviction
    jpc,        \* the janitor thread's position
    wakeAt,     \* the janitor's time.sleep(60) ends no earlier than this
    cutoff,     \* the janitor's local variable cutoff, line 86
    todo,       \* the janitor's snapshot list(_sessions.keys()), line 88
    uploaded,   \* log: per session id, the url of the most recent /upload that
                \* stored one since its last eviction
    ready       \* log: per session id, whether a /poll has returned a url since
                \* its last eviction

vars == <<sessions, lock, now, ticks, pc, arg, last, wrote, acc, jpc, wakeAt, cutoff, todo,
          uploaded, ready>>

----------------------------------------------------------------------------
(* Bounds and program constants *)

MaxTicks == 2

SleepSeconds == 60

InactivityWindow == 60 * 30

\* the clock readings are taken one inactivity window apart
TickSteps == {InactivityWindow}

Sessions == {"s1", "s2"}

Keys == {"url", "ts"}

Threads == {"t1", "t2"}

Callers == {"t1"}

----------------------------------------------------------------------------
(* Python values: None, strings and floats are kept apart by a tag *)

None == <<"none">>

Str(x) == <<"str", x>>

Num(n) == <<"num", n>>

Values == {Str("a"), Str("b")}

Free == "free"

Janitor == "janitor"

----------------------------------------------------------------------------
(* dict operations *)

EmptyDict == [x \in {} |-> None]

DictStore(d, k, v) == [x \in (DOMAIN d) \cup {k} |-> IF x = k THEN v ELSE d[x]]

DictDel(d, k) == [x \in (DOMAIN d) \ {k} |-> d[x]]

DictGet(d, k) == IF k \in DOMAIN d THEN d[k] ELSE None

DictSetDefault(d, k, v) == IF k \in DOMAIN d THEN d ELSE DictStore(d, k, v)

\* {"ts": time.time()}
NewRecord(t) == DictStore(EmptyDict, "ts", Num(t))

\* a plain assignment where the code uses setdefault
EnsureRecordOverwrites(store, s, t) == DictStore(store, s, NewRecord(t))

\* _sessions.setdefault(session_id, {"ts": time.time()})
EnsureRecord(store, s, t) == DictSetDefault(store, s, NewRecord(t))

\* the assignment made in every record of the store, not in that of s alone
StoreFieldInAll(store, s, k, v) == [o \in DOMAIN store |-> DictStore(store[o], k, v)]

\* _sessions[session_id][key] = value
StoreField(store, s, k, v) == DictStore(store, s, DictStore(store[s], k, v))

\* a default other than None for a session without a record
ReadFieldDefaults(store, s, k) ==
    IF s \in DOMAIN store THEN DictGet(store[s], k) ELSE Str("")

\* (_sessions.get(session_id) or {}).get(key)
ReadField(store, s, k) ==
    LET d == IF s \notin DOMAIN store THEN EmptyDict      \* .get() gave None
             ELSE IF DOMAIN store[s] = {} THEN EmptyDict  \* an empty dict is falsy
             ELSE store[s]
    IN  DictGet(d, k)

\* the cutoff taken once, from the reading at the start of the process
CutoffAtStart(t) == 0 - InactivityWindow

\* time.time() - (60 * 30)
Cutoff(t) == t - InactivityWindow

\* <= where the code compares with <
ExpiredAtCutoff(rec, c) == rec["ts"][2] <= c

\* the window subtracted a second time
ExpiredLate(rec, c) == rec["ts"][2] < c - InactivityWindow

\* _sessions[k]["ts"] < cutoff
Expired(rec, c) == rec["ts"][2] < c

----------------------------------------------------------------------------
(* Bookkeeping of calls *)

NoArg == [s |-> "", k |-> "", v |-> None]

NoCall == [op |-> "none", s |-> "", k |-> "", v |-> None]

NoWrite == [s |-> "", k |-> "", v |-> None, t |-> 0]

CallRec(o, a, v) == [op |-> o, s |-> a.s, k |-> a.k, v |-> v]

Stronger(a, b) == IF a = "write" \/ b = "write" THEN "write"
                  ELSE IF a = "read" \/ b = "read" THEN "read" ELSE "none"

Init ==
    /\ sessions = EmptyDict
    /\ lock = Free
    /\ now = 0
    /\ ticks = 0
    /\ pc = [t \in Threads |-> "idle"]
    /\ arg = [t \in Threads |-> NoArg]
    /\ last = NoCall
    /\ wrote = NoWrite
    /\ acc = [s \in Sessions |-> "none"]
    /\ jpc = "85"
    /\ wakeAt = SleepSeconds
    /\ cutoff = 0
    /\ todo = {}
    /\ uploaded = [s \in Sessions |-> None]
    /\ ready = [s \in Sessions |-> FALSE]

----------------------------------------------------------------------------
(* The clock *)

Tick ==
    /\ ticks < MaxTicks
    /\ \E d \in TickSteps : now' = now + d
    /\ ticks' = ticks + 1
    /\ UNCHANGED <<sessions, lock, pc, arg, acc, jpc, wakeAt, cutoff, todo>>

----------------------------------------------------------------------------
(* Request threads *)

\* an acquire that returns without waiting for the holder to release
AcquireBarges(t) == lock' = t

Acquire(t) ==
    /\ lock = Free
    /\ lock' = t

\* a caller enters session_set(session_id, key, value)
set_call(t) ==
    /\ pc[t] = "idle"
    /\ \E s \in Sessions, k \in Keys, v \in Values :
           arg' = [arg EXCEPT ![t] = [s |-> s, k |-> k, v |-> v]]
    /\ pc' = [pc EXCEPT ![t] = "set69"]
    /\ UNCHANGED <<sessions, lock, now, ticks, acc, jpc, wakeAt, cutoff, todo>>

\* line 69: with _lock
set69(t) ==
    /\ pc[t] = "set69"
    /\ Acquire(t)
    /\ pc' = [pc EXCEPT ![t] = "set70"]
    /\ UNCHANGED <<sessions, now, ticks, arg, acc, jpc, wakeAt, cutoff, todo>>

\* line 70
set70(t) ==
    /\ pc[t] = "set70"
    /\ sessions' = EnsureRecord(sessions, arg[t].s, now)
    /\ acc' = [acc EXCEPT ![arg[t].s] = "write"]
    /\ pc' = [pc EXCEPT ![t] = "set71"]
    /\ UNCHANGED <<lock, now, ticks, arg, jpc, wakeAt, cutoff, todo>>

\* line 71
set71(t) ==
    /\ pc[t] = "set71"
    /\ sessions' = StoreField(sessions, arg[t].s, arg[t].k, arg[t].v)
    /\ pc' = [pc EXCEPT ![t] = "set72"]
    /\ UNCHANGED <<lock, now, ticks, arg, acc, jpc, wakeAt, cutoff, todo>>

\* the with block of session_set ends after line 71, the timestamp not rewritten
set72_skipped(t) ==
    /\ pc[t] = "set72"
    /\ sessions' = sessions
    /\ lock' = Free
    /\ pc' = [pc EXCEPT ![t] = "idle"]
    /\ arg' = [arg EXCEPT ![t] = NoArg]
    /\ UNCHANGED <<now, ticks, acc, jpc, wakeAt, cutoff, todo>>

\* line 72, and the end of the with block
set72(t) ==
    /\ pc[t] = "set72"
    /\ sessions' = StoreField(sessions, arg[t].s, "ts", Num(now))
    /\ lock' = Free
    /\ pc' = [pc EXCEPT ![t] = "idle"]
    /\ arg' = [arg EXCEPT ![t] = NoArg]
    /\ UNCHANGED <<now, ticks, acc, jpc, wakeAt, cutoff, todo>>

\* a caller enters session_get(session_id, key)
get_call(t) ==
    /\ pc[t] = "idle"
    /\ \E s \in Sessions, k \in Keys :
           arg' = [arg EXCEPT ![t] = [s |-> s, k |-> k, v |-> None]]
    /\ pc' = [pc EXCEPT ![t] = "get75"]
    /\ UNCHANGED <<sessions, lock, now, ticks, acc, jpc, wakeAt, cutoff, todo>>

\* line 75: with _lock
get75(t) ==
    /\ pc[t] = "get75"
    /\ Acquire(t)
    /\ pc' = [pc EXCEPT ![t] = "get76"]
    /\ UNCHANGED <<sessions, now, ticks, arg, acc, jpc, wakeAt, cutoff, todo>>

\* a read that creates the record it does not find
StoreAfterGetCreates(store, s) == EnsureRecord(store, s, now)

\* a read that refreshes the timestamp of the record it finds
StoreAfterGetRefreshes(store, s) ==
    IF s \in DOMAIN store THEN StoreField(store, s, "ts", Num(now)) ELSE store

\* what line 76 leaves in _sessions
StoreAfterGet(store, s) == store

\* line 76, and the end of the with block
get76(t) ==
    /\ pc[t] = "get76"
    /\ sessions' = StoreAfterGet(sessions, arg[t].s)
    /\ lock' = Free
    /\ acc' = [acc EXCEPT ![arg[t].s] = Stronger(@, "read")]
    /\ pc' = [pc EXCEPT ![t] = "idle"]
    /\ arg' = [arg EXCEPT ![t] = NoArg]
    /\ UNCHANGED <<now, ticks, jpc, wakeAt, cutoff, todo>>

\* a caller enters touch_session(session_id)
touch_call(t) ==
    /\ pc[t] = "idle"
    /\ \E s \in Sessions :
           arg' = [arg EXCEPT ![t] = [s |-> s, k |-> "", v |-> None]]
    /\ pc' = [pc EXCEPT ![t] = "touch79"]
    /\ UNCHANGED <<sessions, lock, now, ticks, acc, jpc, wakeAt, cutoff, todo>>

\* line 79: with _lock
touch79(t) ==
    /\ pc[t] = "touch79"
    /\ Acquire(t)
    /\ pc' = [pc EXCEPT ![t] = "touch80"]
    /\ UNCHANGED <<sessions, now, ticks, arg, acc, jpc, wakeAt, cutoff, todo>>

\* line 80; arg[t].v notes whether setdefault inserted the record
touch80(t) ==
    /\ pc[t] = "touch80"
    /\ sessions' = EnsureRecord(sessions, arg[t].s, now)
    /\ acc' = [acc EXCEPT ![arg[t].s] = "write"]
    /\ arg' = [arg EXCEPT ![t].v = IF arg[t].s \in DOMAIN sessions THEN None ELSE Str("new")]
    /\ pc' = [pc EXCEPT ![t] = "touch81"]
    /\ UNCHANGED <<lock, now, ticks, jpc, wakeAt, cutoff, todo>>

\* line 81, and the end of the with block
touch81(t) ==
    /\ pc[t] = "touch81"
    /\ sessions' = StoreField(sessions, arg[t].s, "ts", Num(now))
    /\ lock' = Free
    /\ pc' = [pc EXCEPT ![t] = "idle"]
    /\ arg' = [arg EXCEPT ![t] = NoArg]
    /\ UNCHANGED <<now, ticks, acc, jpc, wakeAt, cutoff, todo>>

----------------------------------------------------------------------------
(* The janitor thread, lines 83-90 *)

\* line 85: time.sleep(60) returns, no earlier than 60 s after it was entered
janitor85 ==
    /\ jpc = "85"
    /\ now >= wakeAt
    /\ jpc' = "86"
    /\ wakeAt' = 0
    /\ UNCHANGED <<sessions, lock, now, ticks, pc, arg, acc, cutoff, todo>>

\* line 86
janitor86 ==
    /\ jpc = "86"
    /\ cutoff' = Cutoff(now)
    /\ jpc' = "87"
    /\ UNCHANGED <<sessions, lock, now, ticks, pc, arg, acc, wakeAt, todo>>

\* lines 87-88: with _lock, then the snapshot of the keys; the loop below
\* takes them in any order, the dict's insertion order among them
janitor87 ==
    /\ jpc = "87"
    /\ Acquire(Janitor)
    /\ todo' = DOMAIN sessions
    /\ jpc' = "89"
    /\ UNCHANGED <<sessions, now, ticks, pc, arg, acc, wakeAt, cutoff>>

\* lines 89-90 for one key of the snapshot
janitor89 ==
    /\ jpc = "89"
    /\ \E k \in todo :
         /\ todo' = todo \ {k}
         /\ IF Expired(sessions[k], cutoff)
              THEN /\ sessions' = DictDel(sessions, k)
                   /\ acc' = [acc EXCEPT ![k] = "none"]
              ELSE UNCHANGED <<sessions, acc>>
    /\ UNCHANGED <<lock, now, ticks, pc, arg, jpc, wakeAt, cutoff>>

\* the for loop is exhausted: the with block ends, back to line 85; cutoff is
\* not read again before line 86 reassigns it
janitor90 ==
    /\ jpc = "89"
    /\ todo = {}
    /\ lock' = Free
    /\ wakeAt' = now + SleepSeconds
    /\ cutoff' = 0
    /\ jpc' = "85"
    /\ UNCHANGED <<sessions, now, ticks, pc, arg, acc, todo>>

----------------------------------------------------------------------------

(* The call log *)

\* the entry of a call that leaves its critical section
Returned(t) ==
    IF pc[t] = "set72" THEN CallRec("set", arg[t], arg[t].v)
    ELSE IF pc[t] = "get76" THEN CallRec("get", arg[t], ReadField(sessions, arg[t].s, arg[t].k))
    ELSE CallRec("touch", arg[t], arg[t].v)

\* the entry of one pass of the janitor's loop body: the key it deleted, if any
Evicted ==
    IF DOMAIN sessions' = DOMAIN sessions THEN last
    ELSE [NoCall EXCEPT !.op = "evict", !.s = CHOOSE k \in DOMAIN sessions : k \notin DOMAIN sessions']

\* the entry of a finished sweep: it keeps the key the sweeps deleted last
Swept == IF last.op = "evict" THEN last ELSE [NoCall EXCEPT !.op = "sweep"]

Unlogged == UNCHANGED <<last, wrote, uploaded, ready>>

(* Two request threads, the janitor and the clock; no log is kept *)
Next ==
    \/ Tick /\ Unlogged
    \/ \E t \in Threads : set_call(t) /\ Unlogged
    \/ \E t \in Threads : set69(t) /\ Unlogged
    \/ \E t \in Threads : set70(t) /\ Unlogged
    \/ \E t \in Threads : set71(t) /\ Unlogged
    \/ \E t \in Threads : set72(t) /\ Unlogged
    \/ \E t \in Threads : get_call(t) /\ Unlogged
    \/ \E t \in Threads : get75(t) /\ Unlogged
    \/ \E t \in Threads : get76(t) /\ Unlogged
    \/ \E t \in Threads : touch_call(t) /\ Unlogged
    \/ \E t \in Threads : touch79(t) /\ Unlogged
    \/ \E t \in Threads : touch80(t) /\ Unlogged
    \/ \E t \in Threads : touch81(t) /\ Unlogged
    \/ janitor85 /\ Unlogged
    \/ janitor86 /\ Unlogged
    \/ janitor87 /\ Unlogged
    \/ janitor89 /\ Unlogged
    \/ janitor90 /\ Unlogged

Spec == Init /\ [][Next]_vars

(* One request thread, the janitor and the clock; every call and every    *)
(* sweep that leaves its critical section is logged in last               *)
NextLog ==
    \/ Tick /\ Unlogged
    \/ \E t \in Callers : set_call(t) /\ Unlogged
    \/ \E t \in Callers : set69(t) /\ Unlogged
    \/ \E t \in Callers : set70(t) /\ Unlogged
    \/ \E t \in Callers : set71(t) /\ Unlogged
    \/ \E t \in Callers : set72(t) /\ last' = Returned(t) /\ UNCHANGED <<wrote, uploaded, ready>>
    \/ \E t \in Callers : get_call(t) /\ Unlogged
    \/ \E t \in Callers : get75(t) /\ Unlogged
    \/ \E t \in Callers : get76(t) /\ last' = Returned(t) /\ UNCHANGED <<wrote, uploaded, ready>>
    \/ \E t \in Callers : touch_call(t) /\ Unlogged
    \/ \E t \in Callers : touch79(t) /\ Unlogged
    \/ \E t \in Callers : touch80(t) /\ Unlogged
    \/ \E t \in Callers : touch81(t) /\ last' = Returned(t) /\ UNCHANGED <<wrote, uploaded, ready>>
    \/ janitor85 /\ Unlogged
    \/ janitor86 /\ Unlogged
    \/ janitor87 /\ Unlogged
    \/ janitor89 /\ last' = Evicted /\ UNCHANGED <<wrote, uploaded, ready>>
    \/ janitor90 /\ last' = Swept /\ UNCHANGED <<wrote, uploaded, ready>>

SpecLog == Init /\ [][NextLog]_vars

\* the entry of a session_set that returns
Written(t) == [s |-> arg[t].s, k |-> arg[t].k, v |-> arg[t].v, t |-> now]

(* One request thread, the janitor and the clock; the most recent          *)
(* session_set that returned is logged in wrote                            *)
NextSet ==
    \/ Tick /\ Unlogged
    \/ \E t \in Callers : set_call(t) /\ Unlogged
    \/ \E t \in Callers : set69(t) /\ Unlogged
    \/ \E t \in Callers : set70(t) /\ Unlogged
    \/ \E t \in Callers : set71(t) /\ Unlogged
    \/ \E t \in Callers : set72(t) /\ wrote' = Written(t) /\ UNCHANGED <<last, uploaded, ready>>
    \/ \E t \in Callers : get_call(t) /\ Unlogged
    \/ \E t \in Callers : get75(t) /\ Unlogged
    \/ \E t \in Callers : get76(t) /\ Unlogged
    \/ \E t \in Callers : touch_call(t) /\ Unlogged
    \/ \E t \in Callers : touch79(t) /\ Unlogged
    \/ \E t \in Callers : touch80(t) /\ Unlogged
    \/ \E t \in Callers : touch81(t) /\ Unlogged
    \/ janitor85 /\ Unlogged
    \/ janitor86 /\ Unlogged
    \/ janitor87 /\ Unlogged
    \/ janitor89 /\ Unlogged
    \/ janitor90 /\ Unlogged

SpecSet == Init /\ [][NextSet]_vars

----------------------------------------------------------------------------
(* The HTTP handlers that use the store, lines 102-154 *)

\* upload_image is an async def: it runs on the event loop thread, and after
\* its only await (line 132) it runs to its return without yielding, so that
\* one thread makes all the session_set calls of /upload; between requests
\* that thread stands for one more worker of the sync handlers
EventLoop == {"t1"}

\* the session form field of /upload when it is absent (None) or empty
NoSession == ""

\* what res.get("secure_url") can give: a url, or None when the key is missing
UploadResults == Values \cup {None}

\* line 142 with the url test left out
ShouldStoreWithoutUrl(session, url) == session # NoSession

\* line 142 with the session test left out
ShouldStoreWithoutSession(session, url) == url # None

\* line 142: if session and url
ShouldStore(session, url) == session # NoSession /\ url # None

\* GET /uploader, line 108: touch_session(session)
uploader_form(t) == touch_call(t)

\* GET /poll, line 153: session_get(session, "url")
poll(t) ==
    /\ pc[t] = "idle"
    /\ \E s \in Sessions :
           arg' = [arg EXCEPT ![t] = [s |-> s, k |-> "url", v |-> None]]
    /\ pc' = [pc EXCEPT ![t] = "get75"]
    /\ UNCHANGED <<sessions, lock, now, ticks, acc, jpc, wakeAt, cutoff, todo>>

\* POST /upload arrives, with or without a session form field
upload_image(t) ==
    /\ pc[t] = "idle"
    /\ \E s \in Sessions \cup {NoSession} :
           arg' = [arg EXCEPT ![t] = [s |-> s, k |-> "url", v |-> None]]
    /\ pc' = [pc EXCEPT ![t] = "up133"]
    /\ UNCHANGED <<sessions, lock, now, ticks, acc, jpc, wakeAt, cutoff, todo>>

\* lines 132-141: the read or the upload call raises and the except branch
\* answers 400, or the call returns and url is taken from its result
up133(t) ==
    /\ pc[t] = "up133"
    /\ \/ /\ pc' = [pc EXCEPT ![t] = "idle"]
          /\ arg' = [arg EXCEPT ![t] = NoArg]
       \/ /\ \E u \in UploadResults : arg' = [arg EXCEPT ![t].v = u]
          /\ pc' = [pc EXCEPT ![t] = "up142"]
    /\ UNCHANGED <<sessions, lock, now, ticks, acc, jpc, wakeAt, cutoff, todo>>

\* lines 142-144: session_set(session, "url", url) if both are truthy, whose
\* return is followed by that of the handler; else the handler returns
up142(t) ==
    /\ pc[t] = "up142"
    /\ IF ShouldStore(arg[t].s, arg[t].v)
         THEN /\ pc' = [pc EXCEPT ![t] = "set69"]
              /\ arg' = arg
         ELSE /\ pc' = [pc EXCEPT ![t] = "idle"]
              /\ arg' = [arg EXCEPT ![t] = NoArg]
    /\ UNCHANGED <<sessions, lock, now, ticks, acc, jpc, wakeAt, cutoff, todo>>

\* the session_set of a /upload returns: its url is the one stored last
Stored(t) == [uploaded EXCEPT ![arg[t].s] = arg[t].v]

\* the session_get of a /poll returns: a url or None
Polled(t) ==
    [ready EXCEPT ![arg[t].s] = @ \/ ReadField(sessions, arg[t].s, arg[t].k) # None]

\* the log entry of a session is cleared when the janitor deletes its record
Dropped(log, blank) ==
    [s \in Sessions |->
        IF s \in DOMAIN sessions /\ s \notin DOMAIN sessions' THEN blank ELSE log[s]]

(* Two request threads that serve /uploader and /poll, one of them the     *)
(* event loop that serves /upload, the janitor and the clock; the store    *)
(* is reached through the handlers only                                    *)
NextApp ==
    \/ Tick /\ Unlogged
    \/ \E t \in Threads : uploader_form(t) /\ Unlogged
    \/ \E t \in Threads : touch79(t) /\ Unlogged
    \/ \E t \in Threads : touch80(t) /\ Unlogged
    \/ \E t \in Threads : touch81(t) /\ Unlogged
    \/ \E t \in EventLoop : upload_image(t) /\ Unlogged
    \/ \E t \in EventLoop : up133(t) /\ Unlogged
    \/ \E t \in EventLoop : up142(t) /\ Unlogged
    \/ \E t \in EventLoop : set69(t) /\ Unlogged
    \/ \E t \in EventLoop : set70(t) /\ Unlogged
    \/ \E t \in EventLoop : set71(t) /\ Unlogged
    \/ \E t \in EventLoop : set72(t) /\ uploaded' = Stored(t) /\ UNCHANGED <<last, wrote, ready>>
    \/ \E t \in Threads : poll(t) /\ Unlogged
    \/ \E t \in Threads : get75(t) /\ Unlogged
    \/ \E t \in Threads : get76(t) /\ ready' = Polled(t) /\ UNCHANGED <<last, wrote, uploaded>>
    \/ janitor85 /\ Unlogged
    \/ janitor86 /\ Unlogged
    \/ janitor87 /\ Unlogged
    \/ janitor89 /\ uploaded' = Dropped(uploaded, None) /\ ready' = Dropped(ready, FALSE)
                 /\ UNCHANGED <<last, wrote>>
    \/ janitor90 /\ Unlogged

SpecApp == Init /\ [][NextApp]_vars

----------------------------------------------------------------------------
(* Time that never stops.  Once the clock has advanced MaxTicks times, a   *)
(* further advance by d keeps now and moves every stored reading back by   *)
(* d instead: lines 85, 86 and 90 use differences of readings only.  A     *)
(* timestamp that would fall below Floor is kept at Floor, which is below  *)
(* every cutoff taken from then on and no earlier than the reading it      *)
(* stands for, so that a sweep deletes no record the code would keep.      *)
(* These late advances fall between sweeps, where no cutoff is in use:     *)
(* a cutoff moved back to Floor would lose its order with the timestamps.  *)

Floor == 0

Aged(x, d) == IF x - d < Floor THEN Floor ELSE x - d

AgedRecord(rec, d) ==
    [k \in DOMAIN rec |->
        IF k = "ts" /\ rec[k][1] = "num" THEN Num(Aged(rec[k][2], d)) ELSE rec[k]]

TickLate ==
    /\ ticks = MaxTicks
    /\ jpc \in {"85", "86"}
    /\ \E d \in TickSteps :
         /\ sessions' = [s \in DOMAIN sessions |-> AgedRecord(sessions[s], d)]
         /\ wakeAt' = IF jpc = "85" THEN Aged(wakeAt, d) ELSE wakeAt
    /\ UNCHANGED <<lock, now, ticks, pc, arg, acc, jpc, cutoff, todo>>

\* the clock advances
ClockStep == (Tick \/ TickLate) /\ Unlogged

\* the janitor thread runs a statement that does not wait for the lock
JanitorStep == (janitor85 \/ janitor86 \/ janitor89 \/ janitor90) /\ Unlogged

\* the janitor thread is given the lock
JanitorAcquires == janitor87 /\ Unlogged

\* a request thread runs a statement inside its with block
SectionStep(t) ==
    (set70(t) \/ set71(t) \/ set72(t) \/ get76(t) \/ touch80(t) \/ touch81(t)) /\ Unlogged

(* One request thread, the janitor and the clock that never stops *)
NextLive ==
    \/ Tick /\ Unlogged
    \/ TickLate /\ Unlogged
    \/ \E t \in Callers : set_call(t) /\ Unlogged
    \/ \E t \in Callers : set69(t) /\ Unlogged
    \/ \E t \in Callers : set70(t) /\ Unlogged
    \/ \E t \in Callers : set71(t) /\ Unlogged
    \/ \E t \in Callers : set72(t) /\ Unlogged
    \/ \E t \in Callers : get_call(t) /\ Unlogged
    \/ \E t \in Callers : get75(t) /\ Unlogged
    \/ \E t \in Callers : get76(t) /\ Unlogged
    \/ \E t \in Callers : touch_call(t) /\ Unlogged
    \/ \E t \in Callers : touch79(t) /\ Unlogged
    \/ \E t \in Callers : touch80(t) /\ Unlogged
    \/ \E t \in Callers : touch81(t) /\ Unlogged
    \/ janitor85 /\ Unlogged
    \/ janitor86 /\ Unlogged
    \/ janitor87 /\ Unlogged
    \/ janitor89 /\ Unlogged
    \/ janitor90 /\ Unlogged

\* time advances; the janitor thread and a request thread that holds the
\* lock keep running; and the janitor, which asks for the lock again and
\* again, is given it at some point even if request threads keep taking it
Fairness ==
    /\ WF_vars(ClockStep)
    /\ WF_vars(JanitorStep)
    /\ SF_vars(JanitorAcquires)
    /\ \A t \in Callers : WF_vars(SectionStep(t))

SpecLive == Init /\ [][NextLive]_vars /\ Fairness

----------------------------------------------------------------------------
(* Properties *)

\* thread t takes a step of session_get
GetStep(t) ==
    \/ pc[t] = "idle"  /\ pc'[t] = "get75"
    \/ pc[t] = "get75" /\ pc'[t] = "get76"
    \/ pc[t] = "get76" /\ pc'[t] = "idle"

\* the janitor leaves its for loop
SweepEnds == jpc = "89" /\ jpc' = "85"

\* C1: a session_get(s, f) that runs right after session_set(s, f, v), with no
\* other call or sweep in between, returns v, whatever the field name f.
C1_WriteThenRead ==
    [][(last.op = "set" /\ last'.op = "get" /\ last'.s = last.s /\ last'.k = last.k)
          => last'.v = last.v]_vars

\* C2: a session_get(s, f) that runs right after a touch_session(s) that
\* created the record of s returns None, whatever the field name f.
C2_TouchCreatesNoFields ==
    [][(last.op = "touch" /\ last.v = Str("new") /\ last'.op = "get" /\ last'.s = last.s)
          => last'.v = None]_vars

C4_NoPrematureEviction ==
    [][/\ (jpc = "86" /\ jpc' = "87") => cutoff' = now - InactivityWindow
       /\ \A s \in DOMAIN sessions :
            /\ s \notin DOMAIN sessions'
                  => (jpc = "89" /\ sessions[s]["ts"][2] < cutoff)
            /\ (jpc = "89" /\ ~(sessions[s]["ts"][2] < cutoff))
                  => (s \in DOMAIN sessions' /\ sessions'[s] = sessions[s])]_vars

\* C4: the loop has examined and kept a record with a field that was refreshed
\* after the cutoff was computed
C4_RefreshedSurvives ==
    /\ jpc = "89"
    /\ \E s \in (DOMAIN sessions) \ todo :
          /\ "url" \in DOMAIN sessions[s]
          /\ sessions[s]["ts"][2] > cutoff + InactivityWindow

\* C5: when a sweep ends, no record is left whose timestamp plus the inactivity
\* window is below the time the sweep started at; a session_get on a session
\* without a record returns None for every field; after a sweep evicted s and
\* until a call runs, s has no record; the touch_session that follows the
\* eviction leaves a record that holds the fresh timestamp and nothing else.
C5_IdleEvicted ==
    [][/\ SweepEnds =>
            LET started == cutoff + InactivityWindow
            IN  \A s \in DOMAIN sessions' :
                    ~(sessions'[s]["ts"][2] + InactivityWindow < started)
       /\ (last.op = "evict" /\ lock \notin Callers) => last.s \notin DOMAIN sessions
       /\ \A t \in Callers :
            /\ (pc[t] = "get76" /\ pc'[t] = "idle" /\ arg[t].s \notin DOMAIN sessions)
                  => last'.v = None
            /\ (pc[t] \in {"touch80", "touch81"} /\ pc'[t] # pc[t]
                   /\ last.op = "evict" /\ last.s = arg[t].s)
                  => sessions'[arg[t].s] = NewRecord(now)]_vars

\* C5: touch_session has recreated the record of the session the last sweep evicted
C5_RecreatedAfterEviction ==
    \E t \in Callers :
        /\ pc[t] = "touch81"
        /\ last.op = "evict"
        /\ last.s = arg[t].s
        /\ arg[t].s \in DOMAIN sessions

\* C6: no step of session_get changes _sessions (so no timestamp either), and
\* when a sweep ends no record is left whose timestamp is below its cutoff,
\* however many session_get calls ran on it.
C6_ReadsDoNotRefresh ==
    [][/\ \A t \in Threads : GetStep(t) => sessions' = sessions
       /\ SweepEnds => \A s \in DOMAIN sessions' : sessions'[s]["ts"][2] >= cutoff]_vars

\* C6: a session_get is reading a record that the sweep waiting for the lock
\* will find below its cutoff
C6_PolledThenDue ==
    \E t \in Threads :
        /\ pc[t] = "get76"
        /\ jpc = "87"
        /\ arg[t].s \in DOMAIN sessions
        /\ sessions[arg[t].s]["ts"][2] < cutoff

\* C7: a session_get(s, f) that reads less than the inactivity window after the
\* most recent session_set returned, that one being session_set(s, f, v),
\* returns v, whatever ran in between.
C7_CompletedWriteVisible ==
    [][\A t \in Callers :
          (/\ pc[t] = "get76" /\ pc'[t] = "idle"
           /\ wrote.s = arg[t].s /\ wrote.k = arg[t].k
           /\ now - wrote.t < InactivityWindow)
          => ReadField(sessions, arg[t].s, arg[t].k) = wrote.v]_vars

\* C8: when a session_set returns while another thread is waiting in a
\* session_set on another session (and every other thread is idle or doing the
\* same), its session has a record, the field it named holds the value it
\* wrote, and no other session's record has changed.
C8_DistinctSessionsIsolated ==
    [][\A t \in Threads :
          (/\ pc[t] = "set72" /\ pc'[t] = "idle"
           /\ \E u \in Threads \ {t} : pc[u] = "set69" /\ arg[u].s # arg[t].s
           /\ \A u \in Threads \ {t} :
                 pc[u] = "idle" \/ (pc[u] = "set69" /\ arg[u].s # arg[t].s))
          => /\ arg[t].s \in DOMAIN sessions'
             /\ sessions'[arg[t].s][arg[t].k] = arg[t].v
             /\ \A o \in Sessions \ {arg[t].s} :
                   /\ (o \in DOMAIN sessions) <=> (o \in DOMAIN sessions')
                   /\ o \in DOMAIN sessions => sessions'[o] = sessions[o]]_vars

\* C9: once a session_set(s, f, v) has returned and until another call or a
\* sweep enters its critical section, field f of s reads as v: the write that
\* ran last wins, be it the first, a repeated or an overwriting one.
C9_LastWriteWins ==
    (last.op = "set" /\ lock = Free) => ReadField(sessions, last.s, last.k) = last.v

\* C10: a step that removes a record, or a key from a record, is a step of the
\* janitor's loop.
C10_SoleDestructor ==
    [][(\E s \in DOMAIN sessions :
           \/ s \notin DOMAIN sessions'
           \/ ~((DOMAIN sessions[s]) \subseteq (DOMAIN sessions'[s])))
          => (lock = Janitor /\ jpc = "89")]_vars

\* C10: touch_session has run its setdefault on a record that holds a field,
\* and the field is still there
C10_FieldsKept ==
    \E t \in Threads :
        /\ pc[t] = "touch81"
        /\ arg[t].v = None
        /\ "url" \in DOMAIN sessions[arg[t].s]

\* C11: a session_get(s, f) on a session that no touch_session, session_set or
\* session_get has targeted (since the start or its eviction) completes,
\* returns None whatever the field name f, releases the lock and leaves the
\* store as it was.
C11_AbsentReadsAsNone ==
    [][\A t \in Callers :
          (pc[t] = "get76" /\ pc'[t] # pc[t] /\ acc[arg[t].s] = "none")
          => /\ pc'[t] = "idle"
             /\ last' = CallRec("get", arg[t], None)
             /\ sessions' = sessions
             /\ lock' = Free]_vars

\* C11: before any sweep could run, a session_get of the timestamp key has
\* returned None for a session that nothing had targeted before
C11_NeverAccessedRead ==
    /\ now = 0
    /\ last.op = "get" /\ last.k = "ts" /\ last.v = None
    /\ acc[last.s] = "read"
    /\ last.s \notin DOMAIN sessions

\* thread t is inside the with block of touch_session, session_set or session_get
InSection(t) == pc[t] \in {"set70", "set71", "set72", "get76", "touch80", "touch81"}

\* thread t leaves the with block of a call on a session that has a record,
\* while a sweep that has computed its cutoff waits for the lock
WinsRace(t) ==
    /\ pc[t] \in {"set72", "touch81", "get76"}
    /\ pc'[t] = "idle"
    /\ jpc = "87"
    /\ arg[t].s \in DOMAIN sessions

\* the lock is held by exactly the thread that is inside a with block: no two
\* request threads, and no request thread and the janitor's loop, at once
OneInSection ==
    /\ \A t \in Threads : InSection(t) <=> lock = t
    /\ (jpc = "89") <=> lock = Janitor
    /\ \A t, u \in Threads : (InSection(t) /\ InSection(u)) => t = u
    /\ \A t \in Threads : ~(InSection(t) /\ jpc = "89")

\* between the janitor's acquire and release only its loop changes the store,
\* and no request thread moves inside a with block
SweepAtomic ==
    (jpc = "89") => /\ sessions' # sessions => (todo' # todo /\ jpc' = "89")
                    /\ \A t \in Threads : ~InSection(t)'

\* outcome (a): a touch_session or session_set that runs its setdefault after
\* the record was evicted creates {"ts": now}, with none of the old fields
RecreatedEmpty ==
    \A t \in Threads :
        (pc[t] \in {"set70", "touch80"} /\ pc'[t] # pc[t] /\ arg[t].s \notin DOMAIN sessions)
        => sessions'[arg[t].s] = NewRecord(now)

\* C13 as stated: at most one of the three calls and the janitor's loop is
\* inside its with block, the sweep is atomic, and a call on s that races with
\* a sweep either comes after the eviction (a) or refreshes s first, so that
\* the waiting sweep finds s at or above its cutoff (b): session_get included.
C13_RaceRecreatesOrRefreshes ==
    [][/\ OneInSection /\ SweepAtomic /\ RecreatedEmpty
       /\ \A t \in Threads :
             WinsRace(t) => ~Expired(sessions'[arg[t].s], cutoff)]_vars

\* C13 as amended: the same mutual exclusion and atomic sweep; outcome (b)
\* holds for touch_session and session_set, which keep the fields of s, while
\* a session_get that wins the race changes nothing, so that a record below
\* the cutoff stays below it.
C13_ExclusiveSections ==
    [][/\ OneInSection /\ SweepAtomic /\ RecreatedEmpty
       /\ \A t \in Threads :
             WinsRace(t) =>
                IF pc[t] = "get76"
                  THEN sessions' = sessions
                  ELSE /\ ~Expired(sessions'[arg[t].s], cutoff)
                       /\ (DOMAIN sessions[arg[t].s]) \subseteq (DOMAIN sessions'[arg[t].s])
                       /\ \A k \in (DOMAIN sessions[arg[t].s]) \ {"ts"} :
                             sessions'[arg[t].s][k] = sessions[arg[t].s][k]]_vars

\* C13: a touch_session holds the lock and is about to refresh a record with a
\* field, which the sweep waiting for the lock would otherwise find below its
\* cutoff
C13_RefreshBeatsSweep ==
    \E t \in Threads :
        /\ pc[t] = "touch81"
        /\ jpc = "87"
        /\ "url" \in DOMAIN sessions[arg[t].s]
        /\ Expired(sessions[arg[t].s], cutoff)

\* the record holds a "ts" entry that is a clock reading, none from the future
WellStamped(rec) ==
    /\ "ts" \in DOMAIN rec
    /\ rec["ts"][1] = "num"
    /\ rec["ts"][2] <= now

\* C15: whenever no request thread holds the lock, every record holds a "ts"
\* entry that is a clock reading not above the current time, whatever field
\* names and values the calls before used ("ts" as a field name included);
\* and every key the janitor's loop has yet to examine has such a record, so
\* that the comparison of line 90 is defined.
C15_TimestampWellFormed ==
    /\ lock \notin Threads => \A s \in DOMAIN sessions : WellStamped(sessions[s])
    /\ jpc = "89" => \A k \in todo : k \in DOMAIN sessions /\ WellStamped(sessions[k])

\* C15: a session_set with the field name "ts" has returned, the lock is free
\* and a sweep is about to take it
C15_StampOverwritten ==
    /\ last.op = "set" /\ last.k = "ts"
    /\ lock = Free
    /\ jpc = "87"
    /\ last.s \in DOMAIN sessions

\* the step changes at most the keys ks of the record of s: every other
\* session keeps or lacks its record as before, and the record of s keeps
\* every other key with its value and gains no key outside ks
FrameKept(s, ks) ==
    \A o \in Sessions :
        IF o # s
          THEN /\ (o \in DOMAIN sessions) <=> (o \in DOMAIN sessions')
               /\ o \in DOMAIN sessions => sessions'[o] = sessions[o]
          ELSE IF s \in DOMAIN sessions
            THEN /\ s \in DOMAIN sessions'
                 /\ (DOMAIN sessions'[s]) \subseteq ((DOMAIN sessions[s]) \cup ks)
                 /\ \A k \in (DOMAIN sessions[s]) \ ks :
                       k \in DOMAIN sessions'[s] /\ sessions'[s][k] = sessions[s][k]
            ELSE s \in DOMAIN sessions' => (DOMAIN sessions'[s]) \subseteq ks

\* C16: every step of touch_session(s) changes at most the timestamp slot of
\* s (creating the record if there is none); every step of session_set(s, f, v)
\* changes at most f and the timestamp slot of s; every step of session_get
\* and of the clock changes nothing; every step of the janitor leaves each
\* record that is still there as it was.
C16_FramesKept ==
    [][/\ \A t \in Threads :
            pc'[t] # pc[t] =>
               IF pc[t] \in {"touch79", "touch80", "touch81"}
                 THEN FrameKept(arg[t].s, {"ts"})
               ELSE IF pc[t] \in {"set69", "set70", "set71", "set72"}
                 THEN FrameKept(arg[t].s, {"ts", arg[t].k})
               ELSE sessions' = sessions
       /\ (jpc' # jpc \/ todo' # todo) =>
             \A s \in DOMAIN sessions' : s \in DOMAIN sessions /\ sessions'[s] = sessions[s]
       /\ now' # now => sessions' = sessions]_vars

\* C16: a session_set is about to rewrite the timestamp of a record that holds
\* another field, while the other session has a record with a field too
C16_WriteBesideOthers ==
    \E t \in Threads :
        /\ pc[t] = "set72"
        /\ "url" \in DOMAIN sessions[arg[t].s]
        /\ arg[t].k # "url"
        /\ \E o \in Sessions \ {arg[t].s} :
              o \in DOMAIN sessions /\ "url" \in DOMAIN sessions[o]

\* C12: the steps of a /upload that come before its session_set, and every
\* step of one whose upload call raised, returned no url, or that carried no
\* session id, leave the store as it was; the handler enters session_set
\* exactly when the call returned a url and a session id was supplied, with
\* the arguments (session, "url", url); and when that one session_set returns
\* the url is stored under "url" and the handler returns without another
\* store operation.
C12_StoresOnlyOnSuccess ==
    [][\A t \in EventLoop :
          pc'[t] # pc[t] =>
             /\ pc[t] = "idle" /\ pc'[t] = "up133" => sessions' = sessions
             /\ pc[t] = "up133" => sessions' = sessions /\ pc'[t] \in {"idle", "up142"}
             /\ pc[t] = "up142" =>
                   /\ sessions' = sessions
                   /\ IF arg[t].s \in Sessions /\ arg[t].v \in Values
                        THEN /\ pc'[t] = "set69"
                             /\ arg'[t] = [s |-> arg[t].s, k |-> "url", v |-> arg[t].v]
                        ELSE pc'[t] = "idle"
             /\ pc[t] = "set72" =>
                   /\ pc'[t] = "idle"
                   /\ ReadField(sessions', arg[t].s, "url") = arg[t].v
                   /\ uploaded'[arg[t].s] = arg[t].v]_vars

\* C12: the session_set of a /upload has stored a url that differs from the
\* one the upload before it stored, and is about to return
C12_SecondUploadStored ==
    \E t \in EventLoop :
        /\ pc[t] = "set72"
        /\ sessions[arg[t].s]["url"] = arg[t].v
        /\ uploaded[arg[t].s] \in Values \ {arg[t].v}

\* C17: a /poll for s returns a url only if a /upload for s has stored one
\* since the last eviction of s, and then the one stored last; once a /poll
\* for s has returned a url, every /poll for s returns one until a sweep
\* evicts s; and what a ready session answers changes only when the janitor
\* deletes its record or a /upload stores a url: no /uploader, failed /upload
\* or /poll resets it.
C17_ReadyUntilEvicted ==
    [][/\ \A t \in Threads :
            (pc[t] = "get76" /\ pc'[t] = "idle") =>
               LET s == arg[t].s
                   r == ReadField(sessions, s, "url")
               IN  /\ r # None => r = uploaded[s]
                   /\ uploaded[s] = None => r = None
                   /\ ready[s] => r \in Values
       /\ \A s \in Sessions :
            (ready[s] /\ ReadField(sessions', s, "url") # ReadField(sessions, s, "url")) =>
               \/ jpc = "89" /\ s \notin DOMAIN sessions'
               \/ \E t \in EventLoop :
                     /\ pc[t] = "set71" /\ pc'[t] = "set72"
                     /\ arg[t].s = s /\ arg[t].v \in Values]_vars

\* C17: a /poll is reading a session that has answered a url before and was
\* refreshed since, while a /upload without a url result is in progress
C17_PolledAgain ==
    \E t \in Threads \ EventLoop : \E u \in EventLoop :
        /\ pc[t] = "get76"
        /\ ready[arg[t].s]
        /\ sessions[arg[t].s]["ts"][2] > 0
        /\ pc[u] = "up142" /\ arg[u].s = arg[t].s /\ arg[u].v = None

\* no touch_session or session_set on s is in progress
Quiet(s) ==
    \A t \in Threads :
        pc[t] \in {"set69", "set70", "set71", "set72", "touch79", "touch80", "touch81"}
           => arg[t].s # s

\* C14: under the fairness above, for every session s there are, again and
\* again, moments at which s has no record or a touch_session or session_set
\* on s is in progress: a record whose touches and sets have stopped is
\* removed, whatever session_get calls and calls on other sessions keep
\* coming; and every sweep that holds the lock gets back to its sleep, the
\* lock released.
C14_EventuallyEvicted ==
    /\ \A s \in Sessions : []<>(s \notin DOMAIN sessions \/ ~Quiet(s))
    /\ (jpc = "89") ~> (jpc = "85" /\ lock # Janitor)

\* C14: after the clock's bound, the sweep holds the lock and is about to
\* delete a record that a session_get, now waiting for the lock, still reads
C14_DueWhilePolled ==
    /\ ticks = MaxTicks
    /\ jpc = "89"
    /\ \E t \in Callers :
          /\ pc[t] = "get75"
          /\ arg[t].s \in todo
          /\ Expired(sessions[arg[t].s], cutoff)

====
